---------------------------- MODULE Spec2Model ----------------------------
(***************************************************************************)
(* A model of json-parser/src/main.rs: the Lexer (next_token and its       *)
(* read_* helpers), main's token-collecting loop, and the recursive        *)
(* descent Parser (parse, parse_object, parse_array) as a step machine     *)
(* with an explicit call stack.                                            *)
(*                                                                         *)
(* Positions are 0-based as in the source; a Vec<T> is a sequence, whose   *)
(* element i of the source is element i+1 here. An indexing or slicing     *)
(* outside the Vec panics in Rust: every read goes through an operator     *)
(* that says whether the index was in range, and a read out of range sets  *)
(* the variable panicked.                                                  *)
(***************************************************************************)
EXTENDS Integers, Sequences, FiniteSets, TLC

VARIABLES lexer,     \* Lexer { input, pos }
          token,     \* main's local `token`, the last result of next_token
          tokens,    \* main's local `tokens`
          parser,    \* Parser { tokens, pos }
          stack,     \* the parse_object / parse_array activations, innermost last
          ctl,       \* what the parser does next: "call", "run", "return", "idle"
          ret,       \* the Result the last finished parser call returned
          pc,        \* main's position: "lex", "parse", "done"
          panicked,  \* an index or a slice went out of range
          doc        \* the value tree the input was rendered from (NoDoc if none)

vars == <<lexer, token, tokens, parser, stack, ctl, ret, pc, panicked, doc>>

---------------------------------------------------------------------------
(* Characters *)

QUOTE == "\""
BACKSLASH == "\\"

WhitespaceChars == {" ", "\n", "\t", "\r"}

DigitChars == <<"0", "1", "2", "3", "4", "5", "6", "7", "8", "9">>

\* char::is_whitespace
is_whitespace(c) == c \in WhitespaceChars

\* char::is_digit(10)
is_digit(c) == \E i \in 1..Len(DigitChars) : DigitChars[i] = c

DigitVal(c) == (CHOOSE i \in 1..Len(DigitChars) : DigitChars[i] = c) - 1

---------------------------------------------------------------------------
(* Vec indexing and slicing, with Rust's bounds checks *)

InRange(v, i) == 0 <= i /\ i < Len(v)

\* v[i]; only meaningful when InRange(v, i)
At(v, i) == v[i + 1]

\* v[lo..hi] is in range iff lo <= hi <= len
SliceInRange(v, lo, hi) == 0 <= lo /\ lo <= hi /\ hi <= Len(v)

Slice(v, lo, hi) == SubSeq(v, lo + 1, hi)

---------------------------------------------------------------------------
(* Token (enum Token) *)

LeftBrace    == [kind |-> "LeftBrace"]
RightBrace   == [kind |-> "RightBrace"]
LeftBracket  == [kind |-> "LeftBracket"]
RightBracket == [kind |-> "RightBracket"]
Colon        == [kind |-> "Colon"]
Comma        == [kind |-> "Comma"]
TrueTok      == [kind |-> "True"]
FalseTok     == [kind |-> "False"]
NullTok      == [kind |-> "Null"]
Whitespace   == [kind |-> "Whitespace"]
Eof          == [kind |-> "Eof"]
StringTok(s) == [kind |-> "String", s |-> s]
NumberTok(n) == [kind |-> "Number", n |-> n]
\* main's `token` before the first call of next_token
NoToken      == [kind |-> "None"]

---------------------------------------------------------------------------
(* f64 values of the decimal literals read_number can collect: a sign, a   *)
(* mantissa and a decimal scale (value = mant / 10^scale), the scale the   *)
(* least one that represents the value.                                    *)

F64(neg, mant, scale) == [neg |-> neg, mant |-> mant, scale |-> scale]

Zero == F64(FALSE, 0, 0)

RECURSIVE Normalize(_)
Normalize(v) ==
    IF v.scale > 0 /\ v.mant % 10 = 0
    THEN Normalize(F64(v.neg, v.mant \div 10, v.scale - 1))
    ELSE v

RECURSIVE DigitsValue(_)
DigitsValue(ds) ==
    IF ds = <<>> THEN 0
    ELSE 10 * DigitsValue(SubSeq(ds, 1, Len(ds) - 1)) + DigitVal(ds[Len(ds)])

Dots(s) == {i \in 1..Len(s) : s[i] = "."}

\* <f64 as FromStr>::from_str on a text of '-', digits and '.': an optional
\* sign, then digits with at most one '.', at least one digit in all.
\* [ok |-> FALSE] is Err(ParseFloatError).
ParseF64(text) ==
    LET neg  == Len(text) > 0 /\ text[1] = "-"
        body == IF neg THEN Tail(text) ELSE text
        dots == Dots(body)
        wellformed == /\ \A i \in 1..Len(body) : is_digit(body[i]) \/ body[i] = "."
                      /\ Cardinality(dots) <= 1
                      /\ \E i \in 1..Len(body) : is_digit(body[i])
    IN  IF ~wellformed THEN [ok |-> FALSE]
        ELSE LET d    == IF dots = {} THEN Len(body) + 1 ELSE CHOOSE i \in dots : TRUE
                 ip   == SubSeq(body, 1, d - 1)
                 fp   == SubSeq(body, d + 1, Len(body))
             IN  [ok |-> TRUE,
                  value |-> Normalize(F64(neg, DigitsValue(ip \o fp), Len(fp)))]

---------------------------------------------------------------------------
(* Lexer *)

\* Lexer::new
LexerNew(input) == [input |-> input, pos |-> 0]

\* skio_whitespace: the position after the whitespace run at pos
RECURSIVE skio_whitespace(_, _)
skio_whitespace(input, pos) ==
    IF pos < Len(input) /\ is_whitespace(At(input, pos))
    THEN skio_whitespace(input, pos + 1)
    ELSE pos

\* the loop with escape processing: the character after a backslash is skipped
RECURSIVE StringEndEscaped(_, _)
StringEndEscaped(input, pos) ==
    IF pos < Len(input) /\ At(input, pos) # QUOTE
    THEN IF At(input, pos) = BACKSLASH /\ pos + 1 < Len(input)
         THEN StringEndEscaped(input, pos + 2)
         ELSE StringEndEscaped(input, pos + 1)
    ELSE pos

\* the while loop of read_string: the position of the next '"', or the end
RECURSIVE StringEnd(_, _)
StringEnd(input, pos) ==
    IF pos < Len(input) /\ At(input, pos) # QUOTE
    THEN StringEnd(input, pos + 1)
    ELSE pos

\* The read_* helpers are called with pos just past the character that was
\* matched, and give [token, pos, panic].
LexResult(t, pos, panic) == [token |-> t, pos |-> pos, panic |-> panic]

read_string(input, pos) ==
    LET e == StringEnd(input, pos)
        result == Slice(input, pos, e)
    IN  IF e < Len(input) /\ At(input, e) = QUOTE
        THEN LexResult(StringTok(result), e + 1, FALSE)
        ELSE LexResult(StringTok(result), e, FALSE)

\* read_true / read_false / read_null: the length guard, then the slice
\* input[pos-1 .. pos+n] compared with the keyword; the slice panics when it
\* is out of range.
\* the guard without the length of the keyword
KeywordGuardNoLength(input, pos, n) == pos <= Len(input)

KeywordGuard(input, pos, n) == pos + n <= Len(input)

read_keyword(input, pos, word, tok) ==
    LET n == Len(word) - 1
    IN  IF ~KeywordGuard(input, pos, n) THEN LexResult(Whitespace, pos, FALSE)
        ELSE IF ~SliceInRange(input, pos - 1, pos + n) THEN LexResult(Whitespace, pos, TRUE)
        ELSE IF Slice(input, pos - 1, pos + n) = word THEN LexResult(tok, pos + n, FALSE)
        ELSE LexResult(Whitespace, pos, FALSE)

read_true(input, pos)  == read_keyword(input, pos, <<"t", "r", "u", "e">>, TrueTok)
read_false(input, pos) == read_keyword(input, pos, <<"f", "a", "l", "s", "e">>, FalseTok)
read_null(input, pos)  == read_keyword(input, pos, <<"n", "u", "l", "l">>, NullTok)

\* the while loop of read_number: the end of the run of digits and '.'
RECURSIVE NumberEnd(_, _)
NumberEnd(input, pos) ==
    IF pos < Len(input) /\ (is_digit(At(input, pos)) \/ At(input, pos) = ".")
    THEN NumberEnd(input, pos + 1)
    ELSE pos

read_number(input, pos, first) ==
    LET e == NumberEnd(input, pos)
        number == <<first>> \o Slice(input, pos, e)
        parsed == ParseF64(number)
    IN  LexResult(NumberTok(IF parsed.ok THEN parsed.value ELSE Zero), e, FALSE)

\* Lexer::next_token on Lexer {input, pos}: [token, pos, panic]
next_token(input, pos0) ==
    LET pos == skio_whitespace(input, pos0)
    IN  IF pos >= Len(input) THEN LexResult(Eof, pos, FALSE)
        ELSE LET ch == At(input, pos)
                 p  == pos + 1
             IN  CASE ch = "{" -> LexResult(LeftBrace, p, FALSE)
                   [] ch = "}" -> LexResult(RightBrace, p, FALSE)
                   [] ch = "[" -> LexResult(LeftBracket, p, FALSE)
                   [] ch = "]" -> LexResult(RightBracket, p, FALSE)
                   [] ch = ":" -> LexResult(Colon, p, FALSE)
                   [] ch = "," -> LexResult(Comma, p, FALSE)
                   [] ch = QUOTE -> read_string(input, p)
                   [] ch = "t" -> read_true(input, p)
                   [] ch = "f" -> read_false(input, p)
                   [] ch = "n" -> read_null(input, p)
                   [] is_digit(ch) \/ ch = "-" -> read_number(input, p, ch)
                   [] OTHER -> LexResult(Whitespace, p, FALSE)

---------------------------------------------------------------------------
(* JsonValue (enum JsonValue) *)

Object(pairs)   == [type |-> "Object", pairs |-> pairs]
Array(elements) == [type |-> "Array", elements |-> elements]
String(s)       == [type |-> "String", s |-> s]
Number(n)       == [type |-> "Number", n |-> n]
Bool(b)         == [type |-> "Bool", b |-> b]
Null            == [type |-> "Null"]

(* Result<JsonValue, String> *)

Ok(v)    == [tag |-> "Ok", value |-> v]
Err(msg) == [tag |-> "Err", msg |-> msg]
\* no call has returned yet
NoResult == [tag |-> "None"]

UnexpectedEnd  == "Unexpected end of input"
InvalidJson    == "Invalid JSON structure"
UnclosedObject == "Unclosed object"
ExpectedKey    == "Expected string key"
ExpectedColon  == "Expected colon after key"
ExpectedCommaOrBrace   == "Expected commna or closing brace"
UnclosedArray  == "Unclosed array"
ExpectedCommaOrBracket == "Expected comma or closing bracket"

---------------------------------------------------------------------------
(* Parser                                                                  *)
(*                                                                         *)
(* A step of the parser maps the machine (tokens, pos, stack) to           *)
(* [pos, stack, ctl, ret, panic]. ctl = "call": parse() is entered next;   *)
(* "run": the innermost parse_object / parse_array activation goes on at   *)
(* its `at`; "return": the innermost call has returned ret to its caller.  *)
(* parse() returns what parse_object / parse_array return, so only these   *)
(* two have activation records: `at` is "enter" (the function's first      *)
(* line), "loop" (the head of its loop) or "value" (waiting for the        *)
(* recursive parse() to return).                                           *)

\* Parser::new
ParserNew(ts) == [tokens |-> ts, pos |-> 0]

Mach(pos, stk, c, r, panic) ==
    [pos |-> pos, stack |-> stk, ctl |-> c, ret |-> r, panic |-> panic]

\* a `return` of the innermost activation of parse_object / parse_array
Pop(stk) == SubSeq(stk, 1, Len(stk) - 1)
Top(stk) == stk[Len(stk)]
SetTop(stk, f) == [stk EXCEPT ![Len(stk)] = f]

\* an indexing tokens[pos] out of range: the thread panics
Panic(pos, stk) == Mach(pos, stk, "idle", NoResult, TRUE)

ObjectFrame == [fn |-> "parse_object", at |-> "enter", pairs |-> <<>>, key |-> <<>>]
ArrayFrame  == [fn |-> "parse_array", at |-> "enter", elements |-> <<>>]

\* the check of line 155 with > for >=
ParseAtEndOffByOne(ts, pos) == pos > Len(ts)

\* line 155
ParseAtEnd(ts, pos) == pos >= Len(ts)

\* the scalar token left unconsumed
ConsumeScalarForgotten(pos) == pos

\* lines 162, 166, 170, 174, 178: self.pos += 1 past a scalar token
ConsumeScalar(pos) == pos + 1

\* Parser::parse, up to the call of parse_object / parse_array
parse(ts, pos, stk) ==
    IF ParseAtEnd(ts, pos) THEN Mach(pos, stk, "return", Err(UnexpectedEnd), FALSE)
    ELSE IF ~InRange(ts, pos) THEN Panic(pos, stk)
    ELSE LET t == At(ts, pos)
         IN  CASE t.kind = "LeftBrace" ->
                    Mach(pos, Append(stk, ObjectFrame), "run", NoResult, FALSE)
               [] t.kind = "LeftBracket" ->
                    Mach(pos, Append(stk, ArrayFrame), "run", NoResult, FALSE)
               [] t.kind = "String" ->
                    Mach(ConsumeScalar(pos), stk, "return", Ok(String(t.s)), FALSE)
               [] t.kind = "Number" ->
                    Mach(ConsumeScalar(pos), stk, "return", Ok(Number(t.n)), FALSE)
               [] t.kind = "True" ->
                    Mach(ConsumeScalar(pos), stk, "return", Ok(Bool(TRUE)), FALSE)
               [] t.kind = "False" ->
                    Mach(ConsumeScalar(pos), stk, "return", Ok(Bool(FALSE)), FALSE)
               [] t.kind = "Null" ->
                    Mach(ConsumeScalar(pos), stk, "return", Ok(Null), FALSE)
               [] OTHER ->
                    Mach(pos, stk, "return", Err(InvalidJson), FALSE)

\* line 192: the guard of the empty-object short cut, then the comparison
ObjectEmptyGuard(ts, pos) == pos < Len(ts)

\* parse_object, lines 189-195
parse_object_enter(ts, pos0, stk) ==
    LET pos == pos0 + 1
    IN  IF ObjectEmptyGuard(ts, pos)
        THEN IF ~InRange(ts, pos) THEN Panic(pos, stk)
             ELSE IF At(ts, pos) = RightBrace
                  THEN Mach(pos + 1, Pop(stk), "return", Ok(Object(Top(stk).pairs)), FALSE)
                  ELSE Mach(pos, SetTop(stk, [Top(stk) EXCEPT !.at = "loop"]), "run",
                            NoResult, FALSE)
        ELSE Mach(pos, SetTop(stk, [Top(stk) EXCEPT !.at = "loop"]), "run", NoResult, FALSE)

\* line 198
ObjectLoopAtEnd(ts, pos) == pos >= Len(ts)

\* line 210 without its first operand
ObjectColonNeverAtEnd(ts, pos) == FALSE

\* line 210, the first operand of ||
ObjectColonAtEnd(ts, pos) == pos >= Len(ts)

\* a Number token taken as a key too
KeyOfStringOrNumber(t) ==
    IF t.kind = "String" THEN [ok |-> TRUE, key |-> t.s]
    ELSE IF t.kind = "Number" THEN [ok |-> TRUE, key |-> <<"0">>]
    ELSE [ok |-> FALSE]

\* lines 203-206: the key of a String token; any other token is no key
KeyOf(t) == IF t.kind = "String" THEN [ok |-> TRUE, key |-> t.s] ELSE [ok |-> FALSE]

\* parse_object, lines 198-216: the key, the colon and the call of parse()
parse_object_key(ts, pos, stk) ==
    IF ObjectLoopAtEnd(ts, pos) THEN Mach(pos, Pop(stk), "return", Err(UnclosedObject), FALSE)
    ELSE IF ~InRange(ts, pos) THEN Panic(pos, stk)
    ELSE IF ~KeyOf(At(ts, pos)).ok
         THEN Mach(pos, Pop(stk), "return", Err(ExpectedKey), FALSE)
    ELSE LET key == KeyOf(At(ts, pos)).key
             p1  == pos + 1
         IN  IF ObjectColonAtEnd(ts, p1)
             THEN Mach(p1, Pop(stk), "return", Err(ExpectedColon), FALSE)
             ELSE IF ~InRange(ts, p1) THEN Panic(p1, stk)
             ELSE IF At(ts, p1) # Colon
                  THEN Mach(p1, Pop(stk), "return", Err(ExpectedColon), FALSE)
             ELSE Mach(p1 + 1,
                       SetTop(stk, [Top(stk) EXCEPT !.at = "value", !.key = key]),
                       "call", NoResult, FALSE)

\* the pairs kept as a map: a key that is present gets the new value
PushPairReplacing(pairs, key, value) ==
    IF \E i \in 1..Len(pairs) : pairs[i][1] = key
    THEN [i \in 1..Len(pairs) |-> IF pairs[i][1] = key THEN <<key, value>> ELSE pairs[i]]
    ELSE Append(pairs, <<key, value>>)

\* line 218
PushPair(pairs, key, value) == Append(pairs, <<key, value>>)

\* the check of line 221 left out
ObjectValueNeverAtEnd(ts, pos) == FALSE

\* line 221
ObjectValueAtEnd(ts, pos) == pos >= Len(ts)

\* parse_object, lines 216-239: parse() has returned r
parse_object_value(ts, pos, stk, r) ==
    IF r.tag = "Err" THEN Mach(pos, Pop(stk), "return", r, FALSE)   \* the ? of line 216
    ELSE LET pairs == PushPair(Top(stk).pairs, Top(stk).key, r.value)
         IN  IF ObjectValueAtEnd(ts, pos)
             THEN Mach(pos, Pop(stk), "return", Err(UnclosedObject), FALSE)
             ELSE IF ~InRange(ts, pos) THEN Panic(pos, stk)
             ELSE CASE At(ts, pos) = RightBrace ->
                         Mach(pos + 1, Pop(stk), "return", Ok(Object(pairs)), FALSE)
                    [] At(ts, pos) = Comma ->
                         Mach(pos + 1,
                              SetTop(stk, [Top(stk) EXCEPT !.at = "loop", !.pairs = pairs]),
                              "run", NoResult, FALSE)
                    [] OTHER ->
                         Mach(pos, Pop(stk), "return", Err(ExpectedCommaOrBrace), FALSE)

\* line 246
ArrayEmptyGuard(ts, pos) == pos < Len(ts)

\* parse_array, lines 243-249
parse_array_enter(ts, pos0, stk) ==
    LET pos == pos0 + 1
    IN  IF ArrayEmptyGuard(ts, pos)
        THEN IF ~InRange(ts, pos) THEN Panic(pos, stk)
             ELSE IF At(ts, pos) = RightBracket
                  THEN Mach(pos + 1, Pop(stk), "return", Ok(Array(Top(stk).elements)), FALSE)
                  ELSE Mach(pos, SetTop(stk, [Top(stk) EXCEPT !.at = "loop"]), "run",
                            NoResult, FALSE)
        ELSE Mach(pos, SetTop(stk, [Top(stk) EXCEPT !.at = "loop"]), "run", NoResult, FALSE)

\* the check of line 252 made only before the first element
ArrayLoopAtEndFirstOnly(ts, pos) == pos >= Len(ts) /\ At(ts, pos - 1) = LeftBracket

\* line 252
ArrayLoopAtEnd(ts, pos) == pos >= Len(ts)

\* parse_array, lines 252-256: the end check and the call of parse()
parse_array_element(ts, pos, stk) ==
    IF ArrayLoopAtEnd(ts, pos) THEN Mach(pos, Pop(stk), "return", Err(UnclosedArray), FALSE)
    ELSE Mach(pos, SetTop(stk, [Top(stk) EXCEPT !.at = "value"]), "call", NoResult, FALSE)

\* the element put in front
PushElementFront(elements, value) == <<value>> \o elements

\* line 257
PushElement(elements, value) == Append(elements, value)

\* line 259
ArrayValueAtEnd(ts, pos) == pos >= Len(ts)

\* parse_array, lines 256-275: parse() has returned r
parse_array_value(ts, pos, stk, r) ==
    IF r.tag = "Err" THEN Mach(pos, Pop(stk), "return", r, FALSE)   \* the ? of line 256
    ELSE LET elements == PushElement(Top(stk).elements, r.value)
         IN  IF ArrayValueAtEnd(ts, pos)
             THEN Mach(pos, Pop(stk), "return", Err(UnclosedArray), FALSE)
             ELSE IF ~InRange(ts, pos) THEN Panic(pos, stk)
             ELSE CASE At(ts, pos) = RightBracket ->
                         Mach(pos + 1, Pop(stk), "return", Ok(Array(elements)), FALSE)
                    [] At(ts, pos) = Comma ->
                         Mach(pos + 1,
                              SetTop(stk, [Top(stk) EXCEPT !.at = "loop", !.elements = elements]),
                              "run", NoResult, FALSE)
                    [] OTHER ->
                         Mach(pos, Pop(stk), "return", Err(ExpectedCommaOrBracket), FALSE)

---------------------------------------------------------------------------
(* main and the actions *)

\* the parser's step m takes effect
Apply(m) ==
    /\ parser' = [parser EXCEPT !.pos = m.pos]
    /\ stack' = m.stack
    /\ ctl' = m.ctl
    /\ ret' = m.ret
    /\ panicked' = m.panic
    /\ UNCHANGED <<lexer, token, tokens, pc, doc>>

\* main, lines 296-305 and the call of line 307: one turn of the loop that
\* collects the tokens; on Eof the loop is left and the Parser is built.
MainLex ==
    /\ pc = "lex"
    /\ ~panicked
    /\ LET r == next_token(lexer.input, lexer.pos)
       IN  /\ lexer' = [lexer EXCEPT !.pos = r.pos]
           /\ token' = r.token
           /\ panicked' = r.panic
           /\ tokens' = IF ~r.panic /\ r.token # Eof /\ r.token # Whitespace
                        THEN Append(tokens, r.token)
                        ELSE tokens
           /\ IF ~r.panic /\ r.token = Eof
              THEN /\ pc' = "parse"
                   /\ parser' = ParserNew(tokens)
                   /\ ctl' = "call"
              ELSE UNCHANGED <<pc, parser, ctl>>
           /\ UNCHANGED <<stack, ret, doc>>

Running == pc = "parse" /\ ~panicked

InFrame(fn, at) ==
    /\ Running
    /\ stack # <<>>
    /\ Top(stack).fn = fn
    /\ Top(stack).at = at

\* Parser::parse is entered
Parse ==
    /\ Running
    /\ ctl = "call"
    /\ Apply(parse(parser.tokens, parser.pos, stack))

ParseObjectEnter ==
    /\ InFrame("parse_object", "enter")
    /\ ctl = "run"
    /\ Apply(parse_object_enter(parser.tokens, parser.pos, stack))

ParseObjectKey ==
    /\ InFrame("parse_object", "loop")
    /\ ctl = "run"
    /\ Apply(parse_object_key(parser.tokens, parser.pos, stack))

ParseObjectValue ==
    /\ InFrame("parse_object", "value")
    /\ ctl = "return"
    /\ Apply(parse_object_value(parser.tokens, parser.pos, stack, ret))

ParseArrayEnter ==
    /\ InFrame("parse_array", "enter")
    /\ ctl = "run"
    /\ Apply(parse_array_enter(parser.tokens, parser.pos, stack))

ParseArrayElement ==
    /\ InFrame("parse_array", "loop")
    /\ ctl = "run"
    /\ Apply(parse_array_element(parser.tokens, parser.pos, stack))

ParseArrayValue ==
    /\ InFrame("parse_array", "value")
    /\ ctl = "return"
    /\ Apply(parse_array_value(parser.tokens, parser.pos, stack, ret))

\* main, lines 307-316: the top-level parse() has returned; the process exits
MainExit ==
    /\ Running
    /\ ctl = "return"
    /\ stack = <<>>
    /\ pc' = "done"
    /\ ctl' = "idle"
    /\ UNCHANGED <<lexer, token, tokens, parser, stack, ret, panicked, doc>>

\* std::process::exit's status
ExitCode == IF ret.tag = "Ok" THEN 0 ELSE 1

NextParse ==
    \/ Parse
    \/ ParseObjectEnter
    \/ ParseObjectKey
    \/ ParseObjectValue
    \/ ParseArrayEnter
    \/ ParseArrayElement
    \/ ParseArrayValue
    \/ MainExit

Next == MainLex \/ NextParse

---------------------------------------------------------------------------
(* The inputs: documents of the supported grammar, written out as token    *)
(* sequences and as text, and ill-formed inputs made from them.            *)

\* the most tokens of a document
MaxDocTokens == 9
\* the most tokens of a document that is damaged by inserting a character
MaxDamagedTokens == 5
\* the most tokens of an arbitrary token sequence
MaxTokens == 4
\* the most characters of an input without any token
MaxBlank == 3
\* the most pieces of a lexer input
MaxPieces == 3

NoDoc == [type |-> "None"]

Keys == {<<"a">>, <<"b">>}

ScalarValues ==
    {String(<<"a">>), Number(F64(FALSE, 1, 0)), Number(F64(TRUE, 25, 1)),
     Bool(TRUE), Bool(FALSE), Null}

SeqsUpTo(S, n) == UNION {[1..k -> S] : k \in 0..n}

\* the scalars of the documents whose prefixes are given to the parser alone
FewScalarValues == {String(<<"a">>), Number(F64(FALSE, 1, 0)), Null}

\* the documents of exactly n tokens with scalars from S
RECURSIVE ValuesOfSize(_, _), ElementSeqs(_, _), PairSeqs(_, _)
ValuesOfSize(n, S) ==
    IF n <= 0 THEN {}
    ELSE IF n = 1 THEN S
    ELSE IF n = 2 THEN {Array(<<>>), Object(<<>>)}
    ELSE {Array(e) : e \in ElementSeqs(n - 2, S)} \cup {Object(ps) : ps \in PairSeqs(n - 2, S)}

\* the nonempty element lists that take m tokens, commas included
ElementSeqs(m, S) ==
    IF m <= 0 THEN {}
    ELSE {<<v>> : v \in ValuesOfSize(m, S)}
         \cup UNION {{<<v>> \o r : v \in ValuesOfSize(i, S), r \in ElementSeqs(m - i - 1, S)} :
                     i \in 1..(m - 2)}

\* the nonempty pair lists that take m tokens, colons and commas included
PairSeqs(m, S) ==
    IF m < 3 THEN {}
    ELSE {<< <<k, v>> >> : k \in Keys, v \in ValuesOfSize(m - 2, S)}
         \cup UNION {{<< <<k, v>> >> \o r : k \in Keys, v \in ValuesOfSize(i, S),
                                          r \in PairSeqs(m - i - 3, S)} :
                     i \in 1..(m - 4)}

DocsUpTo(n, S) == UNION {ValuesOfSize(i, S) : i \in 1..n}

Docs == DocsUpTo(MaxDocTokens, ScalarValues)
PrefixDocs == DocsUpTo(MaxDocTokens, FewScalarValues)
DamagedDocs == DocsUpTo(MaxDamagedTokens, ScalarValues)

\* the token sequence of a document, by the grammar
RECURSIVE TokensOf(_), TokensOfElements(_), TokensOfPairs(_)
TokensOf(v) ==
    CASE v.type = "Object" -> <<LeftBrace>> \o TokensOfPairs(v.pairs) \o <<RightBrace>>
      [] v.type = "Array"  -> <<LeftBracket>> \o TokensOfElements(v.elements) \o <<RightBracket>>
      [] v.type = "String" -> <<StringTok(v.s)>>
      [] v.type = "Number" -> <<NumberTok(v.n)>>
      [] v.type = "Bool"   -> IF v.b THEN <<TrueTok>> ELSE <<FalseTok>>
      [] v.type = "Null"   -> <<NullTok>>

TokensOfElements(es) ==
    IF es = <<>> THEN <<>>
    ELSE TokensOf(Head(es))
         \o (IF Len(es) > 1 THEN <<Comma>> \o TokensOfElements(Tail(es)) ELSE <<>>)

TokensOfPairs(ps) ==
    IF ps = <<>> THEN <<>>
    ELSE <<StringTok(Head(ps)[1]), Colon>> \o TokensOf(Head(ps)[2])
         \o (IF Len(ps) > 1 THEN <<Comma>> \o TokensOfPairs(Tail(ps)) ELSE <<>>)

\* the decimal text of a number
RECURSIVE NatDigits(_)
NatDigits(n) ==
    IF n < 10 THEN <<DigitChars[n + 1]>>
    ELSE NatDigits(n \div 10) \o <<DigitChars[(n % 10) + 1]>>

RECURSIVE Pow10(_)
Pow10(k) == IF k = 0 THEN 1 ELSE 10 * Pow10(k - 1)

RECURSIVE PadZeros(_, _)
PadZeros(ds, width) == IF Len(ds) >= width THEN ds ELSE PadZeros(<<"0">> \o ds, width)

FormatF64(n) ==
    (IF n.neg THEN <<"-">> ELSE <<>>)
    \o NatDigits(n.mant \div Pow10(n.scale))
    \o (IF n.scale = 0 THEN <<>>
        ELSE <<".">> \o PadZeros(NatDigits(n.mant % Pow10(n.scale)), n.scale))

\* the text of a document: sep follows every token; keys are written
\* between quotes iff quoted
RECURSIVE Render(_, _, _), RenderElements(_, _, _), RenderPairs(_, _, _)
Render(v, sep, quoted) ==
    CASE v.type = "Object" ->
            <<"{">> \o sep \o RenderPairs(v.pairs, sep, quoted) \o <<"}">> \o sep
      [] v.type = "Array"  ->
            <<"[">> \o sep \o RenderElements(v.elements, sep, quoted) \o <<"]">> \o sep
      [] v.type = "String" -> <<QUOTE>> \o v.s \o <<QUOTE>> \o sep
      [] v.type = "Number" -> FormatF64(v.n) \o sep
      [] v.type = "Bool"   ->
            (IF v.b THEN <<"t", "r", "u", "e">> ELSE <<"f", "a", "l", "s", "e">>) \o sep
      [] v.type = "Null"   -> <<"n", "u", "l", "l">> \o sep

RenderElements(es, sep, quoted) ==
    IF es = <<>> THEN <<>>
    ELSE Render(Head(es), sep, quoted)
         \o (IF Len(es) > 1 THEN <<",">> \o sep \o RenderElements(Tail(es), sep, quoted)
             ELSE <<>>)

RenderPairs(ps, sep, quoted) ==
    IF ps = <<>> THEN <<>>
    ELSE (IF quoted THEN <<QUOTE>> \o Head(ps)[1] \o <<QUOTE>> ELSE Head(ps)[1])
         \o sep \o <<":">> \o sep \o Render(Head(ps)[2], sep, quoted)
         \o (IF Len(ps) > 1 THEN <<",">> \o sep \o RenderPairs(Tail(ps), sep, quoted)
             ELSE <<>>)

Separators == {<<>>, <<" ">>, <<"\n", " ">>}

\* the characters that are inserted into a document to damage it
InsertChars == {",", "}", "]", ":", "a", "1", "{", QUOTE}

\* characters that begin no token when they stand alone
BlankChars == {" ", "\n", "a", "t"}

\* the tokens of the arbitrary token sequences
TokenAlphabet ==
    {LeftBrace, RightBrace, LeftBracket, RightBracket, Colon, Comma,
     StringTok(<<"a">>), NumberTok(F64(FALSE, 1, 0)), TrueTok, NullTok}

\* the pieces a lexer input is made of
LexPieces ==
    {<<" ">>, <<"a">>, <<QUOTE>>, <<BACKSLASH>>, <<BACKSLASH, QUOTE>>, <<",">>, <<"1">>, <<"0">>, <<".">>, <<"-">>,
     <<"t">>, <<"t", "r", "u">>, <<"t", "r", "u", "e">>, <<"e">>,
     <<"f", "a", "l", "s">>, <<"f", "a", "l", "s", "e">>,
     <<"n", "u", "l">>, <<"n", "u", "l", "l">>, <<"l">>}

RECURSIVE Flatten(_)
Flatten(ps) == IF ps = <<>> THEN <<>> ELSE Head(ps) \o Flatten(Tail(ps))

---------------------------------------------------------------------------
(* The specifications *)

\* main at line 294: the file has been read into input
StartLex(input, d) ==
    /\ lexer = LexerNew(input)
    /\ token = NoToken
    /\ tokens = <<>>
    /\ parser = ParserNew(<<>>)
    /\ stack = <<>>
    /\ ctl = "idle"
    /\ ret = NoResult
    /\ pc = "lex"
    /\ panicked = FALSE
    /\ doc = d

\* Parser::new(ts) followed by the call of parse()
StartParse(ts) ==
    /\ lexer = LexerNew(<<>>)
    /\ token = NoToken
    /\ tokens = ts
    /\ parser = ParserNew(ts)
    /\ stack = <<>>
    /\ ctl = "call"
    /\ ret = NoResult
    /\ pc = "parse"
    /\ panicked = FALSE
    /\ doc = NoDoc

\* a document as it is, with some layout
InitDoc == \E v \in Docs, sep \in Separators : StartLex(Render(v, sep, TRUE), v)

\* an object whose keys are written without quotes
InitUnquoted ==
    \E v \in {d \in DamagedDocs : d.type = "Object" /\ d.pairs # <<>>} :
        StartLex(Render(v, <<>>, FALSE), NoDoc)

\* a document with one character inserted
InitInserted ==
    \E v \in DamagedDocs, c \in InsertChars :
        LET text == Render(v, <<>>, TRUE)
        IN  \E i \in 0..Len(text) :
                StartLex(SubSeq(text, 1, i) \o <<c>> \o SubSeq(text, i + 1, Len(text)), NoDoc)

\* an input without any token
InitBlank == \E input \in SeqsUpTo(BlankChars, MaxBlank) : StartLex(input, NoDoc)

Init == InitDoc \/ InitUnquoted \/ InitInserted \/ InitBlank

Spec == Init /\ [][Next]_vars

\* the lexer alone, on every input of at most MaxPieces pieces
InitLex == \E ps \in SeqsUpTo(LexPieces, MaxPieces) : StartLex(Flatten(ps), NoDoc)

SpecLex == InitLex /\ [][MainLex]_vars

\* the parser alone: on every token sequence of at most MaxTokens tokens, and
\* on every prefix of a document's tokens followed by at most one more token
InitTokens == \E ts \in SeqsUpTo(TokenAlphabet, MaxTokens) : StartParse(ts)

InitPrefix ==
    \E v \in PrefixDocs, extra \in SeqsUpTo(TokenAlphabet, 1) :
        LET ts == TokensOf(v)
        IN  \E cut \in 0..Len(ts) : StartParse(SubSeq(ts, 1, cut) \o extra)

InitParse == InitTokens \/ InitPrefix

\* The parser runs on the calling thread until parse() returns: a step that
\* is possible is taken.
SpecParse == InitParse /\ [][NextParse]_vars /\ WF_vars(NextParse)

---------------------------------------------------------------------------
(* The lexer's claims, under SpecLex *)

\* the first position at or after pos that holds no whitespace (the length
\* of the input if there is none)
FirstNonWhitespace(input, pos) ==
    LET rest == {i \in pos..(Len(input) - 1) : ~is_whitespace(At(input, i))}
    IN  IF rest = {} THEN Len(input) ELSE CHOOSE i \in rest : \A j \in rest : i <= j

OnlyWhitespaceFrom(input, pos) ==
    \A i \in pos..(Len(input) - 1) : is_whitespace(At(input, i))

Keywords == {<<"t", "r", "u", "e">>, <<"f", "a", "l", "s", "e">>, <<"n", "u", "l", "l">>}

\* a token of the grammar starts at position p of the input
StartsToken(input, p) ==
    \/ At(input, p) \in {"{", "}", "[", "]", ":", ",", QUOTE, "-"}
    \/ is_digit(At(input, p))
    \/ \E w \in Keywords :
          /\ p + Len(w) <= Len(input)
          /\ SubSeq(input, p + 1, p + Len(w)) = w

\* one call of next_token, from the lexer's state before it to the state
\* after it and the token it returned
NextTokenContract ==
    LET input  == lexer.input
        before == lexer.pos
        after  == lexer'.pos
        p      == FirstNonWhitespace(input, before)
    IN  /\ ~panicked'
        /\ 0 <= after /\ after <= Len(input)
        /\ after >= before
        /\ token' # Eof => after > before
        /\ token' = Eof <=> OnlyWhitespaceFrom(input, before)
        /\ (p < Len(input) /\ ~StartsToken(input, p)) =>
               (token' = Whitespace /\ after = p + 1)

\* C8: Lexer::next_token never fails: a call makes no access out of range
\* (the keyword slices included), keeps 0 <= pos <= len(input), never
\* decreases pos, strictly increases it when it returns a token other than
\* Eof, returns Eof exactly when only whitespace remains, and returns
\* Whitespace for a character that starts no token.
C8_NextTokenNeverFails == [][pc = "lex" => NextTokenContract]_vars

\* a keyword cut short by the end of the input: "tru" gives Whitespace and
\* the position moves past the 't' only
C8_Witness ==
    /\ lexer.input = <<"t", "r", "u">>
    /\ lexer.pos = 1
    /\ token = Whitespace

\* the quotes after position p
QuotesAfter(input, p) == {i \in (p + 1)..(Len(input) - 1) : At(input, i) = QUOTE}

\* one call of next_token that meets a '"' at p
ReadStringContract ==
    LET input == lexer.input
        p     == FirstNonWhitespace(input, lexer.pos)
        qs    == QuotesAfter(input, p)
    IN  (p < Len(input) /\ At(input, p) = QUOTE) =>
            /\ ~panicked'
            /\ IF qs # {}
               THEN LET q == CHOOSE i \in qs : \A j \in qs : i <= j
                    IN  /\ token' = StringTok(SubSeq(input, p + 2, q))
                        /\ lexer'.pos = q + 1
               ELSE /\ token' = StringTok(SubSeq(input, p + 2, Len(input)))
                    /\ lexer'.pos = Len(input)

\* C10: at a '"', next_token returns a String token whose text is exactly
\* the characters strictly between that quote and the next '"', a backslash
\* copied as it is, and leaves the position just past the closing quote; with
\* no further '"' the token holds all remaining characters and the position
\* is the length of the input.
C10_ReadStringVerbatim == [][pc = "lex" => ReadStringContract]_vars

\* a quote, an escaped quote and an 'a': the string ends at the quote after
\* the backslash, and holds the backslash
C10_Witness ==
    /\ lexer.input = <<QUOTE, BACKSLASH, QUOTE, "a">>
    /\ token = StringTok(<<BACKSLASH>>)
    /\ lexer.pos = 3

---------------------------------------------------------------------------
(* The parser's claims, under SpecParse *)

AtEnd == parser.pos >= Len(parser.tokens)

\* the step that is taken next finds the tokens exhausted where the
\* innermost object expects a key (after '{' or after ',')
ObjectEndAtKey == InFrame("parse_object", "loop") /\ ctl = "run" /\ AtEnd

\* ... where it expects the ':' after a key
ObjectEndAtColon ==
    /\ InFrame("parse_object", "loop") /\ ctl = "run"
    /\ parser.pos + 1 = Len(parser.tokens)
    /\ At(parser.tokens, parser.pos).kind = "String"

\* ... where it expects the value after the ':'
ObjectEndAtValue == InFrame("parse_object", "value") /\ ctl = "call" /\ AtEnd

\* ... where it expects '}' or ',' after a value
ObjectEndAfterValue ==
    InFrame("parse_object", "value") /\ ctl = "return" /\ ret.tag = "Ok" /\ AtEnd

Fails(msg) == ctl' = "return" /\ ret' = Err(msg) /\ ~panicked'

\* C2 as stated: the tokens exhausted at any point inside the object's loop
\* give "Unclosed object" and no other error.
C2_Original ==
    [][(ObjectEndAtKey \/ ObjectEndAtColon \/ ObjectEndAtValue \/ ObjectEndAfterValue)
          => Fails(UnclosedObject)]_vars

\* C2 (amended): the tokens exhausted where a key is expected, or where '}'
\* or ',' is expected after a value, give "Unclosed object"; exhausted where
\* the ':' is expected they give "Expected colon after key", and exhausted
\* where the value is expected they give "Unexpected end of input".
C2_Amended ==
    [][/\ (ObjectEndAtKey \/ ObjectEndAfterValue) => Fails(UnclosedObject)
       /\ ObjectEndAtColon => Fails(ExpectedColon)
       /\ ObjectEndAtValue => Fails(UnexpectedEnd)]_vars

\* the tokens { "a" : have ended at the value: parse() has returned
\* "Unexpected end of input" to the object that waits for its value
C2_Witness ==
    /\ InFrame("parse_object", "value")
    /\ ctl = "return"
    /\ ret = Err(UnexpectedEnd)
    /\ AtEnd

ArrayEndAtElement == InFrame("parse_array", "loop") /\ ctl = "run" /\ AtEnd

ArrayEndAfterElement ==
    InFrame("parse_array", "value") /\ ctl = "return" /\ ret.tag = "Ok" /\ AtEnd

\* C3: the tokens exhausted inside the array's own loop (where an element is
\* expected after '[' or ',', or where ']' or ',' is expected after an
\* element) give "Unclosed array"; parse() is never entered for an element
\* with the tokens exhausted, so "Unexpected end of input" cannot arise there.
C3_UnclosedArray ==
    [][/\ (ArrayEndAtElement \/ ArrayEndAfterElement) => Fails(UnclosedArray)
       /\ (InFrame("parse_array", "value") /\ ctl = "call") =>
              (~AtEnd /\ ~(ctl' = "return" /\ ret' = Err(UnexpectedEnd)))]_vars

\* the tokens ended right after a comma of an array, and "Unclosed array" is
\* the result of the whole parse
C3_Witness ==
    /\ pc = "done"
    /\ ret = Err(UnclosedArray)
    /\ AtEnd
    /\ Len(parser.tokens) >= 3
    /\ parser.tokens[Len(parser.tokens)] = Comma
    /\ parser.tokens[1] = LeftBracket

\* the token sequences of the documents
DocTokens == {TokensOf(v) : v \in Docs}

\* C7: parse() does not check that the tokens are exhausted: when a prefix of
\* the tokens is one complete value, the top-level parse returns Ok with that
\* value whatever follows, and the position stops just past the prefix.
C7_TrailingTokensAccepted ==
    pc = "done" =>
        \A k \in 1..Len(parser.tokens) :
            SubSeq(parser.tokens, 1, k) \in DocTokens =>
                /\ ret.tag = "Ok"
                /\ parser.pos = k
                /\ TokensOf(ret.value) = SubSeq(parser.tokens, 1, k)

\* an object followed by a token that belongs to no document
C7_Witness ==
    /\ pc = "done"
    /\ ret.tag = "Ok"
    /\ ret.value.type = "Object"
    /\ ret.value.pairs # <<>>
    /\ parser.pos = Len(parser.tokens) - 1
    /\ parser.tokens[Len(parser.tokens)] = Colon

\* C9: the parser never reads the tokens at an index >= their length, the
\* position stays within 0..len(tokens) and never decreases, and every parse
\* ends: main receives Ok or Err.
C9_ParserInBounds ==
    /\ [](/\ ~panicked
          /\ 0 <= parser.pos /\ parser.pos <= Len(parser.tokens))
    /\ [][parser'.pos >= parser.pos]_vars
    /\ <>(pc = "done" /\ ret.tag \in {"Ok", "Err"})

\* a parse that ran into the end of the tokens two levels deep
C9_Witness ==
    /\ pc = "done"
    /\ ret.tag = "Err"
    /\ AtEnd
    /\ Len(parser.tokens) >= 4
    /\ parser.tokens[1] = LeftBracket
    /\ parser.tokens[2] = LeftBrace

---------------------------------------------------------------------------
(* The claims about whole runs of main, under Spec *)

\* C1: a well-formed document, lexed, its Whitespace tokens dropped and
\* parsed once, gives Ok with the tree of the document: the tokens are those
\* of the document, nothing panics (so the lexer's loop goes on), the parser
\* has a step to take until main leaves, and the result is the document's
\* tree with every token consumed.
C1_WellFormedParses ==
    doc # NoDoc =>
        /\ ~panicked
        /\ pc # "lex" => parser.tokens = TokensOf(doc)
        /\ pc = "parse" => ENABLED NextParse
        /\ pc = "done" => (ret = Ok(doc) /\ parser.pos = Len(parser.tokens))

\* { "a" : [ -2.5 , false ] } with a line break and a space after each token
C1_Witness ==
    /\ pc = "done"
    /\ doc = Object(<< <<(<<"a">>), Array(<<Number(F64(TRUE, 25, 1)), Bool(FALSE)>>)>> >>)
    /\ ret = Ok(doc)
    /\ SubSeq(lexer.input, 1, 3) = <<"{", "\n", " ">>

\* the keys of the object that the tokens ts spell: the String tokens at
\* nesting depth 1 that a ':' follows
RECURSIVE KeysFrom(_, _, _)
KeysFrom(ts, i, depth) ==
    IF i > Len(ts) THEN <<>>
    ELSE IF ts[i] \in {LeftBrace, LeftBracket} THEN KeysFrom(ts, i + 1, depth + 1)
    ELSE IF ts[i] \in {RightBrace, RightBracket} THEN KeysFrom(ts, i + 1, depth - 1)
    ELSE IF depth = 1 /\ ts[i].kind = "String" /\ i < Len(ts) /\ ts[i + 1] = Colon
         THEN <<ts[i].s>> \o KeysFrom(ts, i + 1, depth)
    ELSE KeysFrom(ts, i + 1, depth)

TopLevelKeys(ts) == KeysFrom(ts, 1, 0)

\* C6: an object that parses holds one pair per key/value occurrence of its
\* tokens, in input order, pairs with equal keys all kept: its keys are the
\* keys of the tokens in order, and written out again it gives the tokens
\* that were consumed.
C6_PairsKeptInOrder ==
    (pc = "done" /\ ret.tag = "Ok" /\ ret.value.type = "Object") =>
        LET consumed == SubSeq(parser.tokens, 1, parser.pos)
            pairs    == ret.value.pairs
        IN  /\ [i \in 1..Len(pairs) |-> pairs[i][1]] = TopLevelKeys(consumed)
            /\ TokensOf(ret.value) = consumed

\* {"a":1,"a":null}: two pairs with the same key and different values
C6_Witness ==
    /\ pc = "done"
    /\ ret = Ok(Object(<< <<(<<"a">>), Number(F64(FALSE, 1, 0))>>, <<(<<"a">>), Null>> >>))

\* C5: when no token is handed to the parser, the top-level parse fails with
\* "Unexpected end of input", the position stays 0 and nothing panics.
C5_EmptyTokens ==
    (pc # "lex" /\ parser.tokens = <<>>) =>
        /\ ~panicked
        /\ parser.pos = 0
        /\ stack = <<>>
        /\ ctl # "call" => ret = Err(UnexpectedEnd)
        /\ pc = "parse" => ENABLED NextParse

\* an input of characters that all degrade to Whitespace
C5_Witness ==
    /\ pc = "done"
    /\ lexer.input = <<"a", " ", "t">>
    /\ parser.tokens = <<>>
    /\ ret = Err(UnexpectedEnd)

UnquotedKeyInput == <<"{", "a", ":", "1", "}">>

TrailingCommaTokens ==
    <<LeftBrace, StringTok(<<"a">>), Colon, NumberTok(F64(FALSE, 1, 0)), Comma, RightBrace>>

\* C4: a token at a key position (the first token after '{' when it is not
\* '}', or the token after a ',' of the object) that is no String token makes
\* the parse fail with "Expected string key"; so do a '}' right after a comma
\* and the document {a:1}, of which the lexer drops the a.
C4_ExpectedStringKey ==
    /\ [][(/\ InFrame("parse_object", "loop") /\ ctl = "run"
           /\ ~AtEnd
           /\ At(parser.tokens, parser.pos).kind # "String")
          => Fails(ExpectedKey)]_vars
    /\ []((pc = "done" /\ lexer.input = UnquotedKeyInput) =>
              /\ parser.tokens = <<LeftBrace, Colon, NumberTok(F64(FALSE, 1, 0)), RightBrace>>
              /\ ret = Err(ExpectedKey))
    /\ []((pc = "done" /\ parser.tokens = TrailingCommaTokens) => ret = Err(ExpectedKey))

\* the run of main on {a:1}
C4_Witness ==
    /\ pc = "done"
    /\ lexer.input = UnquotedKeyInput
    /\ ret = Err(ExpectedKey)
    /\ parser.pos = 1

=============================================================================
